---- MODULE Spec2Model ----
(***************************************************************************)
(* memory_tracker (src/src/main.rs): the sampling loop of main, the        *)
(* MemoryStats accumulator with its reductions, and the finishing sequence *)
(* (statistics, chart, CSV export).                                        *)
(*                                                                         *)
(* Numbers.  u64 is modelled at U64Bits bits and f64 at F64MantBits bits   *)
(* of mantissa (round to nearest, ties to even, unbounded exponent); the   *)
(* program has 64 and 53.  An f64 is the pair <<n, d>> of the rational     *)
(* n/d in lowest terms, d a power of two.  A u64 addition that overflows   *)
(* panics in a build with overflow checks and wraps in one without: the    *)
(* build is the variable overflow_checks.                                  *)
(*                                                                         *)
(* Time.  Instants are counted in units of 1/UnitsPerSec second.           *)
(***************************************************************************)
EXTENDS Integers, Sequences, FiniteSets, TLC

VARIABLES
    overflow_checks, \* the build: TRUE = arithmetic overflow panics, FALSE = it wraps
    duration,        \* cli.duration, seconds (0 = until the process exits)
    interval,        \* cli.interval, in time units
    csv_output,      \* cli.csv_output.is_some()
    now,             \* start_time.elapsed() if read at this moment
    elapsed,         \* the local `elapsed` of the current loop iteration
    samples,         \* stats.samples: sequence of <<time_seconds (f64), memory_kb (u64)>>
    taken_at,        \* history: the `elapsed` (time units) each sample was taken at
    read_log,        \* history: the outcome ("ok" / "err") of each read_memory_usage call
    sleeps,          \* history: number of thread::sleep calls
    state,           \* the controller state of the loop
    pc,              \* position in main
    report,          \* the statistics lines printed so far (lines 181-185)
    chart,           \* the generate_chart call, if any was made
    csv,             \* the fs::write of the CSV content, if any was made
    exit,            \* how main ended
    ret              \* the value returned by the last reduction called on its own

vars == <<overflow_checks, duration, interval, csv_output, now, elapsed, samples,
          taken_at, read_log, sleeps, state, pc, report, chart, csv, exit, ret>>

\* ---------------------------------------------------------------- bounds
U64Bits == 3
F64MantBits == 2
UnitsPerSec == 2
MaxSamples == 2
MaxClock == 8
MaxDuration == 4
MaxInterval == 1
MaxLen == 3

\* ------------------------------------------------------------ integers
RECURSIVE Pow2(_)
Pow2(k) == IF k <= 0 THEN 1 ELSE 2 * Pow2(k - 1)

U64Modulus == Pow2(U64Bits)
U64Max == U64Modulus - 1
U64 == 0..U64Max

\* The outcome of a call: ok = FALSE is a panic.
Ok(v) == [ok |-> TRUE, v |-> v]
PanicU == [ok |-> FALSE, v |-> 0]
PanicF == [ok |-> FALSE, v |-> <<0, 1>>]

\* u64 + u64: exact when it fits; otherwise a panic or the sum modulo 2^64.
AddU64(a, b) ==
    IF a + b <= U64Max THEN Ok(a + b)
    ELSE IF overflow_checks THEN PanicU
    ELSE Ok((a + b) % U64Modulus)

\* ---------------------------------------------------------------- f64
RECURSIVE Reduce(_, _)
Reduce(n, d) == IF d > 1 /\ n % 2 = 0 THEN Reduce(n \div 2, d \div 2) ELSE <<n, d>>

\* n/d > 0 scaled by 2^-e into [2^(p-1), 2^p), rounded to an integer mantissa.
RECURSIVE RoundPos(_, _, _)
RoundPos(n, d, e) ==
    IF n < Pow2(F64MantBits - 1) * d THEN RoundPos(2 * n, d, e - 1)
    ELSE IF n >= Pow2(F64MantBits) * d THEN RoundPos(n, 2 * d, e + 1)
    ELSE LET q  == n \div d
             r  == n % d
             up == 2 * r > d \/ (2 * r = d /\ q % 2 = 1)
             m  == IF up THEN q + 1 ELSE q
         IN  IF e >= 0 THEN <<m * Pow2(e), 1>> ELSE Reduce(m, Pow2(-e))

\* The f64 nearest to the rational n/d (d > 0).
RoundF(n, d) ==
    IF n = 0 THEN <<0, 1>>
    ELSE IF n < 0 THEN LET p == RoundPos(-n, d, 0) IN <<-p[1], p[2]>>
    ELSE RoundPos(n, d, 0)

FZero == <<0, 1>>
U2F(x) == RoundF(x, 1)                                      \* `x as f64`
FDiv(a, b) == RoundF(a[1] * b[2], a[2] * b[1])              \* a / b, b > 0
FAdd(a, b) == RoundF(a[1] * b[2] + b[1] * a[2], a[2] * b[2])
FSub(a, b) == RoundF(a[1] * b[2] - b[1] * a[2], a[2] * b[2])
FLe(a, b) == a[1] * b[2] <= b[1] * a[2]
FMax(a, b) == IF FLe(a, b) THEN b ELSE a                    \* f64::max
\* A float literal of the source is exact: <<k, 1>>.
Lit(k) == <<k, 1>>

\* ------------------------------------------------------------ MemoryStats
\* self.samples.iter().map(|(_, mem)| mem)
MemOf(s) == [i \in 1..Len(s) |-> s[i][2]]

\* Iterator::sum::<u64>() from element i on, the accumulator at acc.
RECURSIVE SumU64(_, _, _)
SumU64(vals, i, acc) ==
    IF i > Len(vals) THEN Ok(acc)
    ELSE LET r == AddU64(acc, vals[i])
         IN  IF r.ok THEN SumU64(vals, i + 1, r.v) ELSE PanicU

\* One insertion into an ascending sequence.
RECURSIVE InsertAsc(_, _)
InsertAsc(x, sorted) ==
    IF sorted = <<>> THEN <<x>>
    ELSE IF x <= Head(sorted) THEN <<x>> \o sorted
    ELSE <<Head(sorted)>> \o InsertAsc(x, Tail(sorted))

\* values.sort_unstable()
RECURSIVE SortAsc(_)
SortAsc(vals) == IF vals = <<>> THEN <<>> ELSE InsertAsc(Head(vals), SortAsc(Tail(vals)))

\* MemoryStats::mean
mean(s) ==
    IF s = <<>> THEN Ok(FZero)
    ELSE LET sum == SumU64(MemOf(s), 1, 0)
         IN  IF sum.ok THEN Ok(FDiv(U2F(sum.v), U2F(Len(s)))) ELSE PanicF

\* median without the is_empty test of lines 58-60: values[mid - 1] with mid = 0
\* underflows the index (a panic in either build).
median_no_empty_test(s) ==
    LET values == SortAsc(MemOf(s))
        mid    == Len(values) \div 2
    IN  IF Len(values) % 2 = 0
        THEN IF mid = 0 THEN PanicF
             ELSE LET two == AddU64(values[mid], values[mid + 1])
                  IN  IF two.ok THEN Ok(FDiv(U2F(two.v), Lit(2))) ELSE PanicF
        ELSE Ok(U2F(values[mid + 1]))

\* median without line 62: the middle of the values in insertion order.
median_unsorted(s) ==
    IF s = <<>> THEN Ok(FZero)
    ELSE LET values == MemOf(s)
             mid    == Len(values) \div 2
         IN  IF Len(values) % 2 = 0
             THEN LET two == AddU64(values[mid], values[mid + 1])
                  IN  IF two.ok THEN Ok(FDiv(U2F(two.v), Lit(2))) ELSE PanicF
             ELSE Ok(U2F(values[mid + 1]))

\* MemoryStats::median (values[k] of the source is values[k + 1] here)
median(s) ==
    IF s = <<>> THEN Ok(FZero)
    ELSE LET values == SortAsc(MemOf(s))
             mid    == Len(values) \div 2
         IN  IF Len(values) % 2 = 0
             THEN LET two == AddU64(values[mid], values[mid + 1])
                  IN  IF two.ok THEN Ok(FDiv(U2F(two.v), Lit(2))) ELSE PanicF
             ELSE Ok(U2F(values[mid + 1]))

\* Iterator::max / Iterator::min over the memory values, from element i on.
RECURSIVE FoldMax(_, _, _)
FoldMax(vals, i, best) ==
    IF i > Len(vals) THEN best
    ELSE FoldMax(vals, i + 1, IF vals[i] >= best THEN vals[i] ELSE best)

RECURSIVE FoldMin(_, _, _)
FoldMin(vals, i, best) ==
    IF i > Len(vals) THEN best
    ELSE FoldMin(vals, i + 1, IF vals[i] < best THEN vals[i] ELSE best)

\* MemoryStats::max
max(s) == IF s = <<>> THEN 0 ELSE FoldMax(MemOf(s), 2, s[1][2])

\* MemoryStats::min
min(s) == IF s = <<>> THEN 0 ELSE FoldMin(MemOf(s), 2, s[1][2])

\* One insertion into a series ascending by memory value.
RECURSIVE InsertByMem(_, _)
InsertByMem(x, sorted) ==
    IF sorted = <<>> THEN <<x>>
    ELSE IF x[2] <= Head(sorted)[2] THEN <<x>> \o sorted
    ELSE <<Head(sorted)>> \o InsertByMem(x, Tail(sorted))

\* samples_after_reduction if median sorted self.samples in place.
RECURSIVE samples_sorted_in_place(_)
samples_sorted_in_place(s) ==
    IF s = <<>> THEN <<>> ELSE InsertByMem(Head(s), samples_sorted_in_place(Tail(s)))

\* self.samples after a reduction returns: all four take &self, and median
\* sorts `values`, a Vec collected from the iterator, not self.samples.
samples_after_reduction(s) == s

\* add_sample keeping one slot: the new sample replaces the last one.
add_sample_overwrite(s, time, memory_kb) ==
    IF s = <<>> THEN <<<<time, memory_kb>>>>
    ELSE [s EXCEPT ![Len(s)] = <<time, memory_kb>>]

\* add_sample inserting at the front (samples.insert(0, ..)).
add_sample_front(s, time, memory_kb) == <<<<time, memory_kb>>>> \o s

\* MemoryStats::add_sample
add_sample(s, time, memory_kb) == Append(s, <<time, memory_kb>>)

\* ------------------------------------------------------------------ time
\* Duration::as_secs_f64: (secs as f64) + (subsecond part as f64) / (units per second as f64)
as_secs_f64(t) ==
    FAdd(U2F(t \div UnitsPerSec), FDiv(U2F(t % UnitsPerSec), U2F(UnitsPerSec)))

\* max_duration.is_some(), lines 147-151
max_duration_is_some == duration > 0

\* Duration::from_secs(cli.duration), in time units
max_dur == duration * UnitsPerSec

\* duration_reached with > for >=.
duration_reached_gt(el) == max_duration_is_some /\ el > max_dur

\* The cutoff test of lines 156-157 on the elapsed time el.
duration_reached(el) == max_duration_is_some /\ el >= max_dur

\* ------------------------------------------------------------- generate_chart
\* chart_ranges without the .max(0.0) of line 109.
chart_ranges_unclamped(s) ==
    LET max_time      == IF s = <<>> THEN FZero ELSE s[Len(s)][1]
        max_memory_mb == FDiv(U2F(max(s)), Lit(1024))
        min_memory_mb == FDiv(U2F(min(s)), Lit(1024))
        y_margin      == FDiv(FSub(max_memory_mb, min_memory_mb), Lit(10))
        y_min         == FSub(min_memory_mb, y_margin)
        y_max         == FAdd(max_memory_mb, y_margin)
    IN  [max_time |-> max_time, min_mb |-> min_memory_mb, max_mb |-> max_memory_mb,
         y_margin |-> y_margin, y_min |-> y_min, y_max |-> y_max]

\* The axis ranges handed to build_cartesian_2d, lines 104-110.
chart_ranges(s) ==
    LET max_time      == IF s = <<>> THEN FZero ELSE s[Len(s)][1]
        max_memory_mb == FDiv(U2F(max(s)), Lit(1024))
        min_memory_mb == FDiv(U2F(min(s)), Lit(1024))
        y_margin      == FDiv(FSub(max_memory_mb, min_memory_mb), Lit(10))
        y_min         == FMax(FSub(min_memory_mb, y_margin), FZero)
        y_max         == FAdd(max_memory_mb, y_margin)
    IN  [max_time |-> max_time, min_mb |-> min_memory_mb, max_mb |-> max_memory_mb,
         y_margin |-> y_margin, y_min |-> y_min, y_max |-> y_max]

\* ------------------------------------------------------------------- CSV
Digit(k) == <<"0", "1", "2", "3", "4", "5", "6", "7", "8", "9">>[k + 1]

\* format!("{}", n) for a u64: its decimal digits, most significant first.
RECURSIVE Decimal(_)
Decimal(n) == IF n < 10 THEN <<Digit(n)>> ELSE Decimal(n \div 10) \o <<Digit(n % 10)>>

\* csv_from writing the two columns the --csv-output help text names: time,memory_kb.
RECURSIVE csv_from_with_time(_, _)
csv_from_with_time(s, i) ==
    IF i > Len(s) THEN <<>>
    ELSE Decimal(s[i][1][1]) \o <<",">> \o Decimal(s[i][2]) \o <<"\n">>
         \o csv_from_with_time(s, i + 1)

\* csv_content after the loop of lines 199-201 has run over samples i..Len(s).
RECURSIVE csv_from(_, _)
csv_from(s, i) ==
    IF i > Len(s) THEN <<>> ELSE Decimal(s[i][2]) \o <<"\n">> \o csv_from(s, i + 1)

csv_content(s) == csv_from(s, 1)

\* --------------------------------------------------------------- the run
NoReport == [lines |-> 0, count |-> 0, mean |-> FZero, median |-> FZero, max |-> 0, min |-> 0]
NoChart == [called |-> FALSE, ok |-> FALSE, ranges |-> chart_ranges(<<>>)]
NoCsv == [called |-> FALSE, ok |-> FALSE, content |-> <<>>]
NoRet == [fn |-> "none", ok |-> TRUE, v |-> 0]

\* What read_memory_usage returns in Ok: any u64; the smallest two and the largest here.
ReaderValues == {0, 1, U64Max}

\* The state right after line 151, for one command line and one build.
Init ==
    /\ overflow_checks \in BOOLEAN
    /\ duration \in 0..MaxDuration
    /\ interval \in 0..MaxInterval
    /\ csv_output \in BOOLEAN
    /\ now = 0
    /\ elapsed = 0
    /\ samples = <<>>
    /\ taken_at = <<>>
    /\ read_log = <<>>
    /\ sleeps = 0
    /\ state = "Running"
    /\ pc = "loop"
    /\ report = NoReport
    /\ chart = NoChart
    /\ csv = NoCsv
    /\ exit = "running"
    /\ ret = NoRet

\* Lines 154-161: read the clock, then the duration cutoff.
LoopTop ==
    /\ pc = "loop"
    /\ elapsed' = now
    /\ IF duration_reached(now)
       THEN state' = "StoppedByDuration" /\ pc' = "stats"
       ELSE state' = state /\ pc' = "read"
    /\ UNCHANGED <<overflow_checks, duration, interval, csv_output, now, samples,
                   taken_at, read_log, sleeps, report, chart, csv, exit, ret>>

\* Lines 163-168 (read_memory_usage, lines 80-98, returning Ok(memory_kb)).
ReadOk ==
    /\ pc = "read"
    /\ Len(samples) < MaxSamples
    /\ \E memory_kb \in ReaderValues :
          samples' = add_sample(samples, as_secs_f64(elapsed), memory_kb)
    /\ taken_at' = Append(taken_at, elapsed)
    /\ read_log' = Append(read_log, "ok")
    /\ pc' = "flush"
    /\ UNCHANGED <<overflow_checks, duration, interval, csv_output, now, elapsed,
                   sleeps, state, report, chart, csv, exit, ret>>

\* ReadErr with the failure treated as transient: sleep and try again.
ReadErr_retry ==
    /\ pc = "read"
    /\ read_log' = Append(read_log, "err")
    /\ pc' = "sleep"
    /\ UNCHANGED <<overflow_checks, duration, interval, csv_output, now, elapsed,
                   samples, taken_at, sleeps, state, report, chart, csv, exit, ret>>

\* Lines 171-174 (read_memory_usage returning Err).
ReadErr ==
    /\ pc = "read"
    /\ read_log' = Append(read_log, "err")
    /\ state' = "StoppedByTargetGone"
    /\ pc' = "stats"
    /\ UNCHANGED <<overflow_checks, duration, interval, csv_output, now, elapsed,
                   samples, taken_at, sleeps, report, chart, csv, exit, ret>>

\* Line 169, flush returning Ok.
FlushOk ==
    /\ pc = "flush"
    /\ pc' = "sleep"
    /\ UNCHANGED <<overflow_checks, duration, interval, csv_output, now, elapsed,
                   samples, taken_at, read_log, sleeps, state, report, chart, csv,
                   exit, ret>>

\* Line 169, flush returning Err: `?` returns it from main.
FlushErr ==
    /\ pc = "flush"
    /\ pc' = "done"
    /\ exit' = "err"
    /\ UNCHANGED <<overflow_checks, duration, interval, csv_output, now, elapsed,
                   samples, taken_at, read_log, sleeps, state, report, chart, csv, ret>>

\* Line 177: thread::sleep(interval) returns after at least `interval`.
Sleep ==
    /\ pc = "sleep"
    /\ \E d \in interval..(MaxClock - now) : now' = now + d
    /\ sleeps' = sleeps + 1
    /\ pc' = "loop"
    /\ UNCHANGED <<overflow_checks, duration, interval, csv_output, elapsed, samples,
                   taken_at, read_log, state, report, chart, csv, exit, ret>>

\* Lines 180-185: one line per statistic, in order; a panic in a reduction ends main there.
Statistics ==
    /\ pc = "stats"
    /\ LET mn == mean(samples)
           md == median(samples)
       IN  IF ~mn.ok
           THEN /\ report' = [NoReport EXCEPT !.lines = 1, !.count = Len(samples)]
                /\ exit' = "panic" /\ pc' = "done"
           ELSE IF ~md.ok
           THEN /\ report' = [NoReport EXCEPT !.lines = 2, !.count = Len(samples),
                                              !.mean = mn.v]
                /\ exit' = "panic" /\ pc' = "done"
           ELSE /\ report' = [lines |-> 5, count |-> Len(samples), mean |-> mn.v,
                              median |-> md.v, max |-> max(samples), min |-> min(samples)]
                /\ exit' = exit /\ pc' = "chart"
    /\ samples' = samples_after_reduction(samples)
    /\ UNCHANGED <<overflow_checks, duration, interval, csv_output, now, elapsed,
                   taken_at, read_log, sleeps, state, chart, csv, ret>>

\* Lines 191-193: nothing to plot.
ChartSkip ==
    /\ pc = "chart"
    /\ samples = <<>>
    /\ pc' = "csv"
    /\ UNCHANGED <<overflow_checks, duration, interval, csv_output, now, elapsed,
                   samples, taken_at, read_log, sleeps, state, report, chart, csv,
                   exit, ret>>

\* Lines 187-190: generate_chart returning Ok.
ChartOk ==
    /\ pc = "chart"
    /\ samples # <<>>
    /\ chart' = [called |-> TRUE, ok |-> TRUE, ranges |-> chart_ranges(samples)]
    /\ pc' = "csv"
    /\ UNCHANGED <<overflow_checks, duration, interval, csv_output, now, elapsed,
                   samples, taken_at, read_log, sleeps, state, report, csv, exit, ret>>

\* ChartErr with the error reported but not returned: main goes on to the CSV.
ChartErr_continue ==
    /\ pc = "chart"
    /\ samples # <<>>
    /\ chart' = [called |-> TRUE, ok |-> FALSE, ranges |-> chart_ranges(samples)]
    /\ pc' = "csv"
    /\ UNCHANGED <<overflow_checks, duration, interval, csv_output, now, elapsed,
                   samples, taken_at, read_log, sleeps, state, report, csv, exit, ret>>

\* Line 189: generate_chart returning Err, which `?` returns from main.
ChartErr ==
    /\ pc = "chart"
    /\ samples # <<>>
    /\ chart' = [called |-> TRUE, ok |-> FALSE, ranges |-> chart_ranges(samples)]
    /\ pc' = "done"
    /\ exit' = "err"
    /\ UNCHANGED <<overflow_checks, duration, interval, csv_output, now, elapsed,
                   samples, taken_at, read_log, sleeps, state, report, csv, ret>>

\* Lines 196 and 207: no CSV path, main returns Ok(()).
CsvSkip ==
    /\ pc = "csv"
    /\ ~csv_output
    /\ pc' = "done"
    /\ exit' = "ok"
    /\ UNCHANGED <<overflow_checks, duration, interval, csv_output, now, elapsed,
                   samples, taken_at, read_log, sleeps, state, report, chart, csv, ret>>

\* Lines 196-207: fs::write returning Ok.
CsvOk ==
    /\ pc = "csv"
    /\ csv_output
    /\ csv' = [called |-> TRUE, ok |-> TRUE, content |-> csv_content(samples)]
    /\ pc' = "done"
    /\ exit' = "ok"
    /\ UNCHANGED <<overflow_checks, duration, interval, csv_output, now, elapsed,
                   samples, taken_at, read_log, sleeps, state, report, chart, ret>>

\* Lines 202-203: fs::write returning Err, which `?` returns from main.
CsvErr ==
    /\ pc = "csv"
    /\ csv_output
    /\ csv' = [called |-> TRUE, ok |-> FALSE, content |-> csv_content(samples)]
    /\ pc' = "done"
    /\ exit' = "err"
    /\ UNCHANGED <<overflow_checks, duration, interval, csv_output, now, elapsed,
                   samples, taken_at, read_log, sleeps, state, report, chart, ret>>

Next ==
    \/ LoopTop
    \/ ReadOk
    \/ ReadErr
    \/ FlushOk
    \/ FlushErr
    \/ Sleep
    \/ Statistics
    \/ ChartSkip
    \/ ChartOk
    \/ ChartErr
    \/ CsvSkip
    \/ CsvOk
    \/ CsvErr

Spec == Init /\ [][Next]_vars

\* ------------------------------------------- the reductions on their own
\* A series holding the memory values mems, sampled one time unit apart.
SeriesOf(mems) == [i \in 1..Len(mems) |-> <<as_secs_f64(i - 1), mems[i]>>]

AllMems == UNION {[1..k -> U64] : k \in 0..MaxLen}

\* A MemoryStats holding any series of at most MaxLen samples, in either build.
StatInit ==
    /\ overflow_checks \in BOOLEAN
    /\ duration = 0
    /\ interval = 1
    /\ csv_output = FALSE
    /\ \E mems \in AllMems :
          /\ samples = SeriesOf(mems)
          /\ taken_at = [i \in 1..Len(mems) |-> i - 1]
          /\ read_log = [i \in 1..Len(mems) |-> "ok"]
          /\ now = Len(mems)
          /\ elapsed = IF Len(mems) = 0 THEN 0 ELSE Len(mems) - 1
          /\ sleeps = Len(mems)
    /\ state = "Running"
    /\ pc = "call"
    /\ report = NoReport
    /\ chart = NoChart
    /\ csv = NoCsv
    /\ exit = "running"
    /\ ret = NoRet

StatFrame ==
    UNCHANGED <<overflow_checks, duration, interval, csv_output, now, elapsed,
                taken_at, read_log, sleeps, state, pc, report, chart, csv, exit>>

\* stats.mean()
CallMean ==
    /\ pc = "call"
    /\ ret' = [fn |-> "mean", ok |-> mean(samples).ok, v |-> mean(samples).v]
    /\ samples' = samples_after_reduction(samples)
    /\ StatFrame

\* stats.median()
CallMedian ==
    /\ pc = "call"
    /\ ret' = [fn |-> "median", ok |-> median(samples).ok, v |-> median(samples).v]
    /\ samples' = samples_after_reduction(samples)
    /\ StatFrame

\* stats.max()
CallMax ==
    /\ pc = "call"
    /\ ret' = [fn |-> "max", ok |-> TRUE, v |-> max(samples)]
    /\ samples' = samples_after_reduction(samples)
    /\ StatFrame

\* stats.min()
CallMin ==
    /\ pc = "call"
    /\ ret' = [fn |-> "min", ok |-> TRUE, v |-> min(samples)]
    /\ samples' = samples_after_reduction(samples)
    /\ StatFrame

StatNext ==
    \/ CallMean
    \/ CallMedian
    \/ CallMax
    \/ CallMin

StatSpec == StatInit /\ [][StatNext]_vars

\* ================================================================ claims
Last(q) == q[Len(q)]
FLt(a, b) == a[1] * b[2] < b[1] * a[2]
InLoop == pc \in {"loop", "read", "flush", "sleep"}

\* C1: a failed read is the last read: once the reader has failed on its n-th
\* call the controller is in StoppedByTargetGone with exactly n - 1 samples, and
\* no further call is ever logged after the failure.
C1_TargetGoneCutoff ==
    \A i \in 1..Len(read_log) :
        read_log[i] = "err" =>
            /\ i = Len(read_log)
            /\ \A j \in 1..(i - 1) : read_log[j] = "ok"
            /\ state = "StoppedByTargetGone"
            /\ Len(samples) = i - 1
            /\ pc \notin {"loop", "read", "flush", "sleep"}

\* C1 witness: the reader failed on its 3rd call and the run has finished.
C1_Witness ==
    /\ read_log = <<"ok", "ok", "err">>
    /\ Len(samples) = 2
    /\ state = "StoppedByTargetGone"
    /\ pc = "done"

\* C2 as stated: with a maximum duration D > 0 the reader is called only while
\* elapsed < D, StoppedByDuration is entered without a read or a sample, and
\* every sample's elapsed_seconds is strictly less than D.
C2_DurationCutoffStrict ==
    /\ (pc = "read" /\ duration > 0) => elapsed < duration * UnitsPerSec
    /\ state = "StoppedByDuration" =>
          /\ duration > 0 /\ elapsed >= duration * UnitsPerSec
          /\ Len(read_log) = sleeps /\ Len(samples) = sleeps
    /\ duration > 0 => \A i \in 1..Len(samples) : FLt(samples[i][1], Lit(duration))

\* C2 amended: as C2, but what is strictly less than D is the elapsed time each
\* sample was taken at; the elapsed_seconds recorded for it (the f64 nearest to
\* that time) is at most D as an f64.
C2_DurationCutoff ==
    /\ (pc = "read" /\ duration > 0) => elapsed < duration * UnitsPerSec
    /\ state = "StoppedByDuration" =>
          /\ duration > 0 /\ elapsed >= duration * UnitsPerSec
          /\ Len(read_log) = sleeps /\ Len(samples) = sleeps
    /\ duration > 0 =>
          \A i \in 1..Len(samples) :
              /\ taken_at[i] < duration * UnitsPerSec
              /\ FLe(samples[i][1], U2F(duration))

\* C2 witness: stopped by duration after a sample whose recorded time equals D.
C2_Witness ==
    /\ state = "StoppedByDuration"
    /\ duration > 0
    /\ samples # <<>>
    /\ Last(samples)[1] = Lit(duration)
    /\ Last(taken_at) < duration * UnitsPerSec

\* C3: the sampling loop is left only through StoppedByDuration or
\* StoppedByTargetGone.
C3_OnlyTwoExits ==
    ~InLoop => state \in {"StoppedByDuration", "StoppedByTargetGone"}

\* C4: once main is past the loop and has ended, all five statistics lines have
\* been printed and the printed count is the number of samples.
C4_StatisticsAlwaysReported ==
    pc = "done" => report.lines = 5 /\ report.count = Len(samples)

\* C5: on an empty series each of mean, median, max and min returns 0 without
\* a panic.
C5_EmptySeries ==
    (samples = <<>> /\ ret.fn # "none") =>
        /\ ret.ok
        /\ ret.fn \in {"mean", "median"} => ret.v = FZero
        /\ ret.fn \in {"max", "min"} => ret.v = 0

\* C5 witness: median has been called on the empty series.
C5_Witness == samples = <<>> /\ ret.fn = "median"

\* The k-th smallest (k = 1 is the smallest) of the memory values vals.
Kth(vals, k) ==
    CHOOSE v \in {vals[i] : i \in 1..Len(vals)} :
        /\ Cardinality({i \in 1..Len(vals) : vals[i] < v}) < k
        /\ k <= Cardinality({i \in 1..Len(vals) : vals[i] <= v})

\* The reference median of a non-empty series, as the f64 nearest to it.
RefMedian(s) ==
    LET n == Len(s)
    IN  IF n % 2 = 1 THEN RoundF(Kth(MemOf(s), n \div 2 + 1), 1)
        ELSE RoundF(Kth(MemOf(s), n \div 2) + Kth(MemOf(s), n \div 2 + 1), 2)

\* The sum of the memory values as an integer of unbounded width.
RECURSIVE ExactSum(_)
ExactSum(s) == IF s = <<>> THEN 0 ELSE Head(s)[2] + ExactSum(Tail(s))

\* C6: on every non-empty series of u64 values median() returns the reference
\* median: the middle value of the sorted values for an odd count, the average
\* of the two middle values for an even count.
C6_MedianIsReference ==
    (ret.fn = "median" /\ samples # <<>>) => ret.ok /\ ret.v = RefMedian(samples)

\* C7: on every non-empty series of u64 values mean() returns the exact sum of
\* the values divided by the count (both as f64): the sum never overflows.
C7_MeanIsExactSum ==
    (ret.fn = "mean" /\ samples # <<>>) =>
        ret.ok /\ ret.v = FDiv(U2F(ExactSum(samples)), U2F(Len(samples)))

\* C8: no call of mean, median, max or min changes the series (its length, its
\* content or its order), however many calls are made.
C8_ReductionsReadOnly == [][samples' = samples]_vars

\* C8 witness: median has run on a series whose values are not in ascending order.
C8_Witness == ret.fn = "median" /\ MemOf(samples) = <<2, 0, 1>>

\* The series s with its memory values rearranged by the permutation p.
Rearranged(s, p) == [i \in 1..Len(s) |-> <<s[i][1], s[p[i]][2]>>]

\* C9: what a reduction returned on the series is what it returns on every
\* series holding the same memory values in another order.
C9_OrderIndependent ==
    \A p \in Permutations(1..Len(samples)) :
        LET t == Rearranged(samples, p)
        IN  /\ ret.fn = "mean" => mean(t) = [ok |-> ret.ok, v |-> ret.v]
            /\ ret.fn = "median" => median(t) = [ok |-> ret.ok, v |-> ret.v]
            /\ ret.fn = "max" => max(t) = ret.v
            /\ ret.fn = "min" => min(t) = ret.v

\* C9 witness: median has run on three distinct values, the middle one last.
C9_Witness == ret.fn = "median" /\ ret.ok /\ MemOf(samples) = <<3, 1, 2>> /\ ret.v = Lit(2)

\* C10: once the loop has ended in a terminal state and main has ended, chart
\* rendering was invoked exactly if the series is non-empty.
C10_ChartIffNonEmpty ==
    (pc = "done" /\ state # "Running") => (chart.called <=> samples # <<>>)

\* The value of a decimal digit character, -1 for any other character.
DigitValue(c) ==
    CASE c = "0" -> 0 [] c = "1" -> 1 [] c = "2" -> 2 [] c = "3" -> 3 [] c = "4" -> 4
      [] c = "5" -> 5 [] c = "6" -> 6 [] c = "7" -> 7 [] c = "8" -> 8 [] c = "9" -> 9
      [] OTHER -> -1

\* The lines of a text, each without its newline; a last line that no newline
\* ends is kept, followed by the mark <<"unterminated">>.
RECURSIVE LinesOf(_, _)
LinesOf(text, cur) ==
    IF text = <<>> THEN (IF cur = <<>> THEN <<>> ELSE <<cur, <<"unterminated">>>>)
    ELSE IF Head(text) = "\n" THEN <<cur>> \o LinesOf(Tail(text), <<>>)
    ELSE LinesOf(Tail(text), Append(cur, Head(text)))

\* The number a line of decimal digits denotes, -1 if it is not one.
RECURSIVE LineValue(_, _)
LineValue(line, acc) ==
    IF line = <<>> THEN acc
    ELSE IF DigitValue(Head(line)) < 0 THEN -1
    ELSE LineValue(Tail(line), 10 * acc + DigitValue(Head(line)))

C12_ExitOutcome ==
    (pc = "done" /\ state # "Running") =>
        LET sink_failed == (chart.called /\ ~chart.ok) \/ (csv.called /\ ~csv.ok)
        IN  exit = (IF sink_failed THEN "err" ELSE "ok")

IsPrefix(a, b) == Len(a) <= Len(b) /\ SubSeq(b, 1, Len(a)) = a

\* C13: every step leaves the series as it was or appends one sample to it (no
\* sample is changed, removed or moved), and the series never holds more
\* samples than ticks were begun.
C13_AppendOnly ==
    /\ [](Len(samples) <= sleeps + 1)
    /\ [][IsPrefix(samples, samples') /\ Len(samples') <= Len(samples) + 1]_vars

\* C13 witness: the run has ended with two different samples in the series.
C13_Witness == pc = "done" /\ Len(samples) = 2 /\ samples[1] # samples[2]

\* C14: elapsed_seconds is non-decreasing along the series, the last sample
\* holds the largest, and that is the x-axis upper bound given to the chart.
C14_Chronological ==
    /\ \A i, j \in 1..Len(samples) : i < j => FLe(samples[i][1], samples[j][1])
    /\ \A i \in 1..Len(samples) : FLe(samples[i][1], Last(samples)[1])
    /\ chart.called =>
          /\ chart.ranges.max_time = Last(samples)[1]
          /\ \A i \in 1..Len(samples) : FLe(samples[i][1], chart.ranges.max_time)

\* C14 witness: a chart was drawn of two samples taken at different times.
C14_Witness ==
    /\ chart.called
    /\ Len(samples) = 2
    /\ FLt(samples[1][1], samples[2][1])
    /\ chart.ranges.max_time = samples[2][1]

\* C15: with duration 0 the controller never enters StoppedByDuration, and
\* the loop is left only in StoppedByTargetGone.
C15_ZeroMeansUnbounded ==
    duration = 0 =>
        /\ state # "StoppedByDuration"
        /\ ~InLoop => state = "StoppedByTargetGone"

\* C16 (second half; finite runs refute it): with no maximum duration and no
\* failed read, main is still in its sampling loop.
C16_UnboundedRunsOn ==
    (duration = 0 /\ \A i \in 1..Len(read_log) : read_log[i] = "ok") => InLoop

\* The number of successful calls in a log of reader calls.
OkCount(log) == Cardinality({i \in 1..Len(log) : log[i] = "ok"})

\* C17: the samples are the successful reads; each tick makes at most one read;
\* a sleep happens only in Running right after a successful read of the same
\* tick and lasts at least the interval; after a terminal transition there is
\* no sleep and no read.
C17_TickOrdering ==
    /\ [](/\ Len(samples) = OkCount(read_log)
          /\ Len(read_log) <= sleeps + 1
          /\ sleeps <= Len(samples))
    /\ [][/\ sleeps' # sleeps =>
                /\ state = "Running" /\ state' = "Running"
                /\ Len(samples) = sleeps + 1
                /\ Last(read_log) = "ok"
                /\ now' >= now + interval
          /\ state # "Running" => (sleeps' = sleeps /\ read_log' = read_log)]_vars

\* C17 witness: two ticks slept, the third ended the run by duration.
C17_Witness ==
    /\ state = "StoppedByDuration"
    /\ sleeps = 2
    /\ read_log = <<"ok", "ok">>
    /\ interval > 0

\* The largest of the memory values vals.
Largest(vals) == Kth(vals, Len(vals))

\* KB to MB as f64: the f64 nearest to kb / 1024.
Mb(kb) == RoundF(kb, 1024)

\* f64 subtraction, division by a literal and addition, from the values.
Minus(a, b) == RoundF(a[1] * b[2] - b[1] * a[2], a[2] * b[2])
Tenth(a) == RoundF(a[1], 10 * a[2])
Plus(a, b) == RoundF(a[1] * b[2] + b[1] * a[2], a[2] * b[2])

\* C18: the y-axis range of every chart (so of a non-empty series) satisfies
\* 0 <= y_min <= min_MB <= max_MB <= y_max, with margin = (max_MB - min_MB) / 10,
\* y_min = max(0, min_MB - margin) and y_max = max_MB + margin in f64 arithmetic;
\* for one sample the margin is 0 and y_min = y_max = the sample's MB value.
C18_ChartRange ==
    chart.called =>
        LET r == chart.ranges
        IN  /\ samples # <<>>
            /\ r.min_mb = Mb(Kth(MemOf(samples), 1))
            /\ r.max_mb = Mb(Largest(MemOf(samples)))
            /\ FLe(FZero, r.y_min) /\ FLe(r.y_min, r.min_mb)
            /\ FLe(r.min_mb, r.max_mb) /\ FLe(r.max_mb, r.y_max)
            /\ FLe(FZero, r.y_margin)
            /\ r.y_margin = Tenth(Minus(r.max_mb, r.min_mb))
            /\ r.y_min = (IF FLt(r.min_mb, r.y_margin) THEN FZero
                          ELSE Minus(r.min_mb, r.y_margin))
            /\ r.y_max = Plus(r.max_mb, r.y_margin)
            /\ Len(samples) = 1 =>
                  /\ r.y_margin = FZero
                  /\ r.y_min = Mb(samples[1][2]) /\ r.y_max = Mb(samples[1][2])

\* C18 witness: a chart of a series whose margin exceeds its minimum, so that
\* y_min is clamped at 0.
C18_Witness ==
    /\ chart.called
    /\ MemOf(samples) = <<U64Max, 0>>
    /\ chart.ranges.y_min = FZero
    /\ FLt(FZero, chart.ranges.y_margin)

\* C19: the CSV write is attempted only after the chart step (a chart that
\* succeeded, or no chart for an empty series); a failed chart ends main with
\* an error at once, with no CSV write attempted and no CSV content written.
C19_ChartBeforeCsv ==
    /\ (chart.called /\ ~chart.ok) =>
          /\ pc = "done" /\ exit = "err"
          /\ csv = NoCsv
    /\ csv.called =>
          \/ chart.called /\ chart.ok
          \/ ~chart.called /\ samples = <<>>

\* C19 witness: a CSV path was configured and samples were collected, the chart
\* failed, and main has ended without a CSV write.
C19_Witness ==
    /\ csv_output /\ samples # <<>>
    /\ chart.called /\ ~chart.ok
    /\ pc = "done" /\ ~csv.called

\* C20: the statistics printed for a non-empty series are consistent:
\* min <= median <= max and min <= mean <= max (min and max as f64), and min
\* and max are memory values of samples of the series.
C20_ReductionsConsistent ==
    (report.lines = 5 /\ samples # <<>>) =>
        /\ FLe(U2F(report.min), report.median) /\ FLe(report.median, U2F(report.max))
        /\ FLe(U2F(report.min), report.mean) /\ FLe(report.mean, U2F(report.max))
        /\ \E i \in 1..Len(samples) : samples[i][2] = report.min
        /\ \E i \in 1..Len(samples) : samples[i][2] = report.max

====
